---------------------------- MODULE Spec2Model ----------------------------
(***************************************************************************)
(* BookKeepWeb: a single-page client for a remote book collection.         *)
(*                                                                         *)
(* The module models                                                       *)
(*   - the zod schemas and factories of @types/book (bookSchema, Book,     *)
(*     BookFormValues, BookDto) as operators on JavaScript values,         *)
(*   - the service layer (handleApiResponse, fetchBooks, fetchBookById,    *)
(*     createBook, updateBook, deleteBook) as operators on the outcome of  *)
(*     one network call,                                                   *)
(*   - the pages (list, detail, new, edit) as a state machine over the     *)
(*     route, the requests in flight, the query cache and each page's      *)
(*     component state.                                                    *)
(***************************************************************************)
EXTENDS Integers, Sequences, FiniteSets, TLC

(***************************************************************************)
(* Bounds of the model.                                                    *)
(***************************************************************************)
\* network calls in flight at one time
MaxInFlight == 2
\* largest id the server hands out
MaxBooks == 3
\* calendar year in which the application was loaded
YearAtLoad == 2025

(***************************************************************************)
(* JavaScript values.  Every value is a record with a tag k.               *)
(***************************************************************************)
Undef == [k |-> "undef"]
Null == [k |-> "null"]
NaN == [k |-> "nan"]
Num(n) == [k |-> "num", n |-> n]
Str(s) == [k |-> "str", s |-> s]
Bool(b) == [k |-> "bool", b |-> b]

\* a string is a sequence of one-character strings
Rep(c, n) == [i \in 1..n |-> c]

\* o.key of a JavaScript object: undefined when the key is absent
Get(o, key) == IF key \in DOMAIN o THEN o[key] ELSE Undef

Digits == {"0", "1", "2", "3", "4", "5", "6", "7", "8", "9"}
HexDigits == Digits \cup {"a", "b", "c", "d", "e", "f"}
Letters == {"a", "b", "c", "d", "e", "f", "h", "p", "s", "t", "x"}

Min(a, b) == IF a < b THEN a ELSE b

(***************************************************************************)
(* @types/baseModel.ts and @types/book/book.ts: the zod schemas.           *)
(* A schema is modelled by the issues it raises (pairs <<field, message>>) *)
(* and by the object it returns when there are none.                       *)
(***************************************************************************)
IsStr(v) == v.k = "str"
IsNum(v) == v.k = "num"
Missing(v) == v.k = "undef"
Nullish(v) == v.k \in {"undef", "null"}

TypeIssue(field, v) ==
    {<<field, IF Missing(v) THEN "Required" ELSE "Invalid type">>}

\* z.string().min(lo, msgLo).max(hi, msgHi)
StringIssues(field, v, lo, msgLo, hi, msgHi) ==
    IF ~IsStr(v) THEN TypeIssue(field, v)
    ELSE {<<field, msgLo>> : x \in {1} \cap (IF Len(v.s) < lo THEN {1} ELSE {})}
         \cup {<<field, msgHi>> : x \in {1} \cap (IF Len(v.s) > hi THEN {1} ELSE {})}

DigitCount(s) == Cardinality({i \in 1..Len(s) : s[i] \in Digits})

\* a faulty pattern, for comparison: /^[\d-]+$/ without the lookahead
IsbnRegexNoCount(s) ==
    /\ Len(s) >= 1
    /\ \A i \in 1..Len(s) : s[i] \in {"0", "1", "2", "3", "4", "5", "6", "7", "8", "9", "-"}

\* /^(?=(?:\D*\d){10}(?:(?:\D*\d){3})?$)[\d-]+$/ : the lookahead splits the
\* whole string into 10 or 13 groups "non-digits, one digit", so the string
\* holds 10 or 13 digits and ends with one; [\d-]+ allows digits and hyphens.
IsbnRegex(s) ==
    /\ Len(s) >= 1
    /\ \A i \in 1..Len(s) : s[i] \in Digits \cup {"-"}
    /\ DigitCount(s) \in {10, 13}
    /\ s[Len(s)] \in Digits

IsbnMinLen == 10
IsbnMaxLen == 13
TitleMaxLen == 200
AuthorMaxLen == 100
DescriptionMaxLen == 2000
GenreMaxLen == 50
CoverUrlMaxLen == 500
MinYear == 1000
YearSlack == 6

IsbnIssues(v) ==
    IF ~IsStr(v) THEN TypeIssue("isbn", v)
    ELSE {<<"isbn", "ISBN is required.">> :
              x \in (IF Len(v.s) < 1 THEN {1} ELSE {})}
         \cup {<<"isbn", "ISBN must be between 10 and 13 characters.">> :
              x \in (IF Len(v.s) < IsbnMinLen \/ Len(v.s) > IsbnMaxLen THEN {1} ELSE {})}
         \cup {<<"isbn", "Invalid ISBN format.">> :
              x \in (IF ~IsbnRegex(v.s) THEN {1} ELSE {})}

\* z.string().uuid(): 8-4-4-4-12 hexadecimal digits
IsUuid(s) ==
    /\ Len(s) = 36
    /\ \A i \in 1..36 :
          IF i \in {9, 14, 19, 24} THEN s[i] = "-" ELSE s[i] \in HexDigits

\* z.string().url(): new URL(s) succeeds.  Over the characters used here
\* (letters, ":", "/", ".") that is: a scheme "letter, letters, colon", and
\* for the special scheme http a non-empty host after the slashes.
SchemeEnd(s) ==
    IF \E i \in 2..Len(s) : s[i] = ":" /\ \A j \in 1..(i - 1) : s[j] \in Letters
    THEN CHOOSE i \in 2..Len(s) : s[i] = ":" /\ \A j \in 1..(i - 1) : s[j] \in Letters
    ELSE 0

IsUrl(s) ==
    LET e == SchemeEnd(s) IN
    /\ e > 0
    /\ \A i \in 1..Len(s) : s[i] \in Letters \cup {":", "/", "."}
    /\ SubSeq(s, 1, e - 1) = <<"h", "t", "t", "p">>
          => \E i \in (e + 1)..Len(s) :
                /\ s[i] \in Letters
                /\ \A j \in (e + 1)..(i - 1) : s[j] = "/"

\* z.string().max(hi, msg).optional().nullable()
OptStringIssues(field, v, hi, msg) ==
    IF Nullish(v) THEN {}
    ELSE IF ~IsStr(v) THEN TypeIssue(field, v)
    ELSE {<<field, msg>> : x \in (IF Len(v.s) > hi THEN {1} ELSE {})}

\* a faulty rule, for comparison: z.number().optional().nullable()
YearIssuesNoBounds(v, loadYear) ==
    IF v.k \in {"undef", "null", "num"} THEN {}
    ELSE {<<"publicationYear", "Invalid type">>}

\* z.number().int().min(1000).max(new Date().getFullYear() + 6): the upper
\* bound is evaluated once, when the module is loaded (loadYear).
YearIssues(v, loadYear) ==
    IF Nullish(v) THEN {}
    ELSE IF ~IsNum(v) THEN TypeIssue("publicationYear", v)
    ELSE {<<"publicationYear", "Please enter a valid publication year.">> :
              x \in (IF v.n < MinYear \/ v.n > loadYear + YearSlack THEN {1} ELSE {})}

CoverIssues(v) ==
    IF Nullish(v) THEN {}
    ELSE IF ~IsStr(v) THEN TypeIssue("coverImageUrl", v)
    ELSE {<<"coverImageUrl", "Please enter a valid URL for the cover image.">> :
              x \in (IF ~IsUrl(v.s) THEN {1} ELSE {})}
         \cup {<<"coverImageUrl", "Cover image URL cannot be longer than 500 characters.">> :
              x \in (IF Len(v.s) > CoverUrlMaxLen THEN {1} ELSE {})}

BaseKeys == {"id", "guid", "createdOn", "updatedOn", "isActive"}
BookOwnKeys == {"title", "author", "isbn", "description", "publicationYear",
                "genre", "coverImageUrl"}
BookKeys == BaseKeys \cup BookOwnKeys
DefaultedKeys == {"id", "guid", "isActive"}
\* a faulty schema, for comparison: omit({id}) alone
DtoOmittedIdOnly == {"id"}

\* bookDtoSchema = bookSchema.omit({id, createdOn, updatedOn, isActive})
DtoOmitted == {"id", "createdOn", "updatedOn", "isActive"}
DtoKeys == BookKeys \ DtoOmitted

\* the issues one key of the schema raises on the input object o
KeyIssues(o, key, loadYear) ==
    LET v == Get(o, key) IN
    CASE key = "id" ->
           IF Missing(v) THEN {}
           ELSE IF ~IsNum(v) THEN TypeIssue("id", v)
           ELSE {<<"id", "ID is required">> : x \in (IF v.n < 0 THEN {1} ELSE {})}
      [] key = "guid" ->
           IF Missing(v) THEN {}
           ELSE IF ~IsStr(v) THEN TypeIssue("guid", v)
           ELSE {<<"guid", "Invalid uuid">> : x \in (IF ~IsUuid(v.s) THEN {1} ELSE {})}
      [] key \in {"createdOn", "updatedOn"} ->
           IF Missing(v) \/ IsStr(v) THEN {} ELSE TypeIssue(key, v)
      [] key = "isActive" ->
           IF Missing(v) \/ v.k = "bool" THEN {} ELSE TypeIssue(key, v)
      [] key = "title" ->
           StringIssues("title", v, 1, "Title is required.",
                        TitleMaxLen, "Title cannot be longer than 200 characters.")
      [] key = "author" ->
           StringIssues("author", v, 1, "Author is required.",
                        AuthorMaxLen, "Author name cannot be longer than 100 characters.")
      [] key = "isbn" -> IsbnIssues(v)
      [] key = "description" ->
           OptStringIssues("description", v, DescriptionMaxLen,
                           "Description cannot be longer than 2000 characters.")
      [] key = "publicationYear" -> YearIssues(v, loadYear)
      [] key = "genre" ->
           OptStringIssues("genre", v, GenreMaxLen,
                           "Genre cannot be longer than 50 characters.")
      [] key = "coverImageUrl" -> CoverIssues(v)

\* a faulty parse, for comparison: no default fills in what is missing
KeyValueAsGiven(o, key, fresh) == Get(o, key)

\* the value a key has in the parsed object: defaults fill in what is missing
KeyValue(o, key, fresh) ==
    LET v == Get(o, key) IN
    IF ~Missing(v) THEN v
    ELSE CASE key = "id" -> Num(0)
           [] key = "guid" -> Str(fresh)
           [] key = "isActive" -> Bool(TRUE)
           [] OTHER -> Undef

\* zod's object parse over the keys of one schema: unknown keys are
\* stripped, a key is set when the input has it or a default produced it
SchemaParse(keys, o, fresh, loadYear) ==
    LET issues == UNION {KeyIssues(o, key, loadYear) : key \in keys}
        outKeys == {key \in keys : key \in DOMAIN o \/ key \in DefaultedKeys}
    IN  [ok |-> issues = {},
         issues |-> issues,
         value |-> [key \in outKeys |-> KeyValue(o, key, fresh)]]

bookSchema(o, fresh, loadYear) == SchemaParse(BookKeys, o, fresh, loadYear)
\* bookFormSchema = bookSchema.extend({})
bookFormSchema(o, fresh, loadYear) == bookSchema(o, fresh, loadYear)
bookDtoSchema(o, fresh, loadYear) == SchemaParse(DtoKeys, o, fresh, loadYear)

EmptyObject == [key \in {} |-> Undef]

\* new Error(`Book validation failed: ${JSON.stringify(error.errors)}`): a
\* plain Error; the issues of zod are text inside its message
ValidationFailed(issues) ==
    [name |-> "Error",
     message |-> [prefix |-> "Book validation failed: ", json |-> issues],
     errors |-> Undef]

\* a faulty factory, for comparison: {} instead of a thrown Error
BookSilent(formValues, fresh, loadYear) ==
    LET r == bookSchema(formValues, fresh, loadYear) IN
    [threw |-> FALSE, value |-> IF r.ok THEN r.value ELSE EmptyObject,
     issues |-> {}, error |-> Undef]

\* Book(formValues): the parsed book, or a thrown Error
Book(formValues, fresh, loadYear) ==
    LET r == bookSchema(formValues, fresh, loadYear) IN
    IF r.ok THEN [threw |-> FALSE, value |-> r.value, issues |-> {}, error |-> Undef]
    ELSE [threw |-> TRUE, value |-> EmptyObject, issues |-> r.issues,
          error |-> ValidationFailed(r.issues)]

\* a faulty projection, for comparison: what the parse produced, defaults
\* included, also when it failed
BookFormValuesSeeded(book, fresh, loadYear) ==
    bookSchema(IF book.k = "undef" THEN EmptyObject ELSE book.o, fresh, loadYear).value

\* a faulty projection, for comparison: parsed with the schema of the DTO
BookFormValuesOfDto(book, fresh, loadYear) ==
    LET r == bookDtoSchema(IF Missing(book) THEN EmptyObject ELSE book.o,
                           fresh, loadYear)
    IN  IF r.ok THEN r.value ELSE EmptyObject

\* BookFormValues(book?): the parsed projection, or {} when parsing fails
BookFormValues(book, fresh, loadYear) ==
    LET r == bookFormSchema(IF Missing(book) THEN EmptyObject ELSE book.o,
                            fresh, loadYear)
    IN  IF r.ok THEN r.value ELSE EmptyObject

\* a faulty projection, for comparison: the input as it is when parsing fails
BookDtoAsGiven(book, fresh, loadYear) ==
    LET o == IF book.k = "undef" THEN EmptyObject ELSE book.o
        r == SchemaParse(BookKeys \ {"id", "createdOn", "updatedOn", "isActive"},
                         o, fresh, loadYear)
    IN  IF r.ok THEN r.value ELSE o

\* BookDto(book?): the parsed projection, or {} when parsing fails
BookDto(book, fresh, loadYear) ==
    LET r == bookDtoSchema(IF Missing(book) THEN EmptyObject ELSE book.o,
                           fresh, loadYear)
    IN  IF r.ok THEN r.value ELSE EmptyObject

validateBookForm(formValues, fresh, loadYear) ==
    bookFormSchema(formValues, fresh, loadYear).ok

\* an object as a JavaScript value
Obj(o) == [k |-> "obj", o |-> o]

(***************************************************************************)
(* services/bookService.ts.  A network call ends in an outcome: the call   *)
(* itself fails (fetch rejects, no response), or a response arrives.  A    *)
(* response body is JSON (a value), text that is no JSON, or empty.  A     *)
(* message is a sequence of text fragments.                                *)
(***************************************************************************)
NetFail == [k |-> "netfail"]
Resp(status, body) == [k |-> "resp", status |-> status, body |-> body]
JsonBody(v) == [k |-> "json", v |-> v]
TextBody(t) == [k |-> "text", t |-> t]
NoBody == [k |-> "empty"]
\* a body whose stream fails while it is read
Unreadable == [k |-> "unreadable"]

\* the errors member of an error payload: field name -> messages
ErrMap(m) == [k |-> "map", m |-> m]

Truthy(v) ==
    CASE v.k \in {"undef", "null", "nan"} -> FALSE
      [] v.k = "str" -> v.s # <<>>
      [] v.k = "num" -> v.n # 0
      [] v.k = "bool" -> v.b
      [] OTHER -> TRUE

\* what a service operation hands its caller
Resolved(v) == [k |-> "value", v |-> v]
Rejected(name, message, statusCode, errors) ==
    [k |-> "error", name |-> name, message |-> message,
     statusCode |-> statusCode, errors |-> errors]

\* new ApiError(message, statusCode, errors): an undefined message is ''
ApiError(message, status, errors) ==
    Rejected("ApiError", IF IsStr(message) THEN message.s ELSE <<>>,
             Num(status), errors)

\* response.ok
Ok(response) == response.status \in 200..299

ExcerptLen == 200

\* `HTTP error! status: ${response.status} ${response.statusText || ''}`
\* (the status text is empty under HTTP/2)
StatusMessage(status) == <<"HTTP error! status: ", ToString(status), " ">>

\* `HTTP error! status: ${response.status}`
HttpErrorMessage(status) == <<"HTTP error! status: ", ToString(status)>>

\* a faulty excerpt, for comparison: the whole text, never cut
ExcerptMessageWhole(status, t) ==
    <<"HTTP error ", ToString(status), ": ">> \o t

\* `HTTP error ${status}: ${text.substring(0, 200)}${text.length > 200 ? '...' : ''}`
ExcerptMessage(status, t) ==
    <<"HTTP error ", ToString(status), ": ">>
        \o SubSeq(t, 1, Min(Len(t), ExcerptLen))
        \o (IF Len(t) > ExcerptLen THEN <<"...">> ELSE <<>>)

\* the text of a body, as response.text() reads it (one character each
\* fragment)
BodyText(body) ==
    CASE body.k = "text" -> body.t
      [] body.k = "json" -> <<"n", "u", "l", "l">>
      [] OTHER -> <<>>

\* a faulty reading, for comparison: no member of the body is seen
MembersNone(v) == EmptyObject

\* the members of a parsed JSON value: only an object has any
Members(v) == IF v.k = "obj" THEN v.o ELSE EmptyObject

handleApiResponse(response) ==
    LET status == response.status
        body == response.body
        generic == Str(StatusMessage(status))
    IN
    IF ~Ok(response) THEN
        IF body.k = "json" /\ body.v.k # "null" THEN
            LET rb == Members(body.v)
                first == IF Truthy(Get(rb, "Message")) THEN Get(rb, "Message")
                         ELSE IF Truthy(Get(rb, "message")) THEN Get(rb, "message")
                         ELSE IF Truthy(Get(rb, "title")) THEN Get(rb, "title")
                         ELSE generic
                errors == IF Truthy(Get(rb, "Message")) THEN Undef
                          ELSE IF Truthy(Get(rb, "errors")) THEN Get(rb, "errors")
                          ELSE Undef
                message == IF first = generic /\ Truthy(Get(rb, "detail"))
                           THEN Get(rb, "detail") ELSE first
            IN  ApiError(message, status, errors)
        ELSE IF body.k = "unreadable" THEN
            \* neither json() nor text() could read the body
            ApiError(generic, status, Undef)
        ELSE
            \* json() rejected, or the JSON value is null and reading
            \* responseBody.Message threw: the catch reads the text
            ApiError(Str(ExcerptMessage(status, BodyText(body))), status, Undef)
    ELSE IF status = 204 THEN Resolved(Undef)
    ELSE IF body.k = "json" THEN Resolved(body.v)
    ELSE Rejected("SyntaxError", <<"Unexpected end of JSON input">>, Undef, Undef)

\* fetch() rejects when the network call fails; no operation catches it
FetchRejected == Rejected("TypeError", <<"Failed to fetch">>, Undef, Undef)

fetchBooks(outcome) ==
    IF outcome.k = "netfail" THEN FetchRejected ELSE handleApiResponse(outcome)

\* a faulty operation, for comparison: response.json() on every 2xx
fetchBookByIdJson(id, outcome) ==
    IF outcome.k = "netfail" THEN FetchRejected
    ELSE IF ~Ok(outcome) THEN handleApiResponse(outcome)
    ELSE IF outcome.body.k = "json" THEN Resolved(outcome.body.v)
    ELSE Rejected("SyntaxError", <<"Unexpected end of JSON input">>, Undef, Undef)

fetchBookById(id, outcome) ==
    IF outcome.k = "netfail" THEN FetchRejected ELSE handleApiResponse(outcome)

createBook(newBook, outcome) ==
    IF outcome.k = "netfail" THEN FetchRejected ELSE handleApiResponse(outcome)

updateBook(payload, outcome) ==
    IF outcome.k = "netfail" THEN FetchRejected ELSE handleApiResponse(outcome)

deleteBook(id, outcome) ==
    IF outcome.k = "netfail" THEN FetchRejected
    ELSE IF outcome.status = 204 THEN Resolved(Obj([id |-> Str(id)]))
    ELSE IF ~Ok(outcome) THEN
        IF outcome.body.k = "json" THEN
            IF outcome.body.v.k # "null"
            THEN ApiError(Get(Members(outcome.body.v), "message"), outcome.status,
                          Get(Members(outcome.body.v), "errors"))
            ELSE Rejected("TypeError", <<"Cannot read properties of null">>,
                          Undef, Undef)
        ELSE ApiError(Str(HttpErrorMessage(outcome.status)), outcome.status, Undef)
    ELSE ApiError(Str(<<"Book could not be deleted">>), outcome.status, Undef)

\* JSON.stringify(BookDto(book)): keys holding undefined are left out
RequestBody(book, fresh, loadYear) ==
    LET dto == BookDto(Obj(book), fresh, loadYear) IN
    [key \in {x \in DOMAIN dto : ~Missing(dto[x])} |-> dto[key]]

(***************************************************************************)
(* The application state.                                                  *)
(***************************************************************************)
VARIABLES
    route,      \* the current location: [page, id]
    server,     \* the API server: [books, nextId]
    requests,   \* the network calls in flight
    books,      \* the query ['books'] of the query cache
    detail,     \* the queries ['book', id] of the query cache
    listPage,   \* BookPage: [viewMode]
    newPage,    \* BookNewPage: [formSubmitting]
    editPage,   \* BookEditPage: [book, isLoading, formSubmitting]
    event,      \* what the last step did: the handler that ran, what it
                \* was given, how its service call ended, its snackbars
    call        \* the service operation called last, apart from any page

vars == <<route, server, requests, books, detail, listPage, newPage,
          editPage, event, call>>

Ids == 1..MaxBooks
Pending == [k |-> "none"]

Uuid(c) == [i \in 1..36 |-> IF i \in {9, 14, 19, 24} THEN "-" ELSE c]
\* the uuid v4() returns
FreshUuid == Uuid("f")

Isbn10 == Rep("1", 10)

\* the book the server holds under an id
ServerBook(id) ==
    [id |-> Num(id), guid |-> Str(Uuid(ToString(id))), isActive |-> Bool(TRUE),
     title |-> Str(<<"T">>), author |-> Str(<<"A">>), isbn |-> Str(Isbn10)]

\* The array GET /books answers with.  fresh is bookkeeping: it holds while
\* the server has applied no write since the array was produced.
ListValue(ids, fresh) == [k |-> "list", ids |-> ids, fresh |-> fresh]

\* error responses of the server
NotFound ==
    Resp(404, JsonBody(Obj([title |-> Str(<<"Not Found">>), errors |-> ErrMap({})])))
Invalid ==
    Resp(400, JsonBody(Obj([title |-> Str(<<"Validation failed">>),
                            errors |-> ErrMap({<<"isbn", <<"ISBN already exists">>>>})])))
ServerError ==
    Resp(500, JsonBody(Obj([Message |-> Str(<<"Server error">>)])))

\* The ways a call can end, each with the server state it leaves: the
\* network call fails, or the server answers; a write that succeeds is
\* applied, a failing one changes nothing.
Outcomes(r, sv) ==
    LET keep(resp) == [resp |-> resp, server |-> sv]
        written(resp, bs) == [resp |-> resp, server |-> [sv EXCEPT !.books = bs]]
    IN
    {keep(NetFail)} \cup
    CASE r.op = "fetchBooks" ->
           {keep(Resp(200, JsonBody(ListValue(sv.books, TRUE)))), keep(ServerError)}
      [] r.op \in {"fetchBookById", "loadBook"} ->
           IF r.id \in sv.books
           THEN {keep(Resp(200, JsonBody(Obj(ServerBook(r.id))))), keep(Resp(204, NoBody))}
           ELSE {keep(NotFound)}
      [] r.op = "createBook" ->
           (IF sv.nextId <= MaxBooks
            THEN {[resp |-> Resp(st, bd),
                   server |-> [books |-> sv.books \cup {sv.nextId},
                               nextId |-> sv.nextId + 1]] :
                     <<st, bd>> \in {<<201, JsonBody(Obj(ServerBook(sv.nextId)))>>,
                                     <<204, NoBody>>}}
            ELSE {})
           \cup {keep(Invalid)}
      [] r.op = "updateBook" ->
           IF r.id \in sv.books
           THEN {written(Resp(200, JsonBody(Obj(ServerBook(r.id)))), sv.books),
                 written(Resp(204, NoBody), sv.books),
                 keep(Invalid)}
           ELSE {keep(NotFound)}
      [] r.op = "deleteBook" ->
           IF r.id \in sv.books
           THEN {written(Resp(204, NoBody), sv.books \ {r.id}),
                 keep(ServerError)}
           ELSE {keep(NotFound)}

\* what the service operation that issued r hands its caller
ServiceResult(r) ==
    CASE r.op = "fetchBooks" -> fetchBooks(r.outcome)
      [] r.op \in {"fetchBookById", "loadBook"} -> fetchBookById(ToString(r.id), r.outcome)
      [] r.op = "createBook" -> createBook(r.body, r.outcome)
      [] r.op = "updateBook" -> updateBook(r.body, r.outcome)
      [] r.op = "deleteBook" -> deleteBook(ToString(r.id), r.outcome)

\* useParams() gave no id
NoId == 0

\* a faulty query function, for comparison: no guard before the call
queryFnUnguarded(id, outcome) ==
    [sent |-> TRUE, result |-> fetchBookById(ToString(id), outcome)]

\* BookInfo, the queryFn of ['book', id]: the guard, then fetchBookById
queryFn(id, outcome) ==
    IF id = NoId
    THEN [sent |-> FALSE,
          result |-> Rejected("Error", <<"Book ID is missing">>, Undef, Undef)]
    ELSE [sent |-> TRUE, result |-> fetchBookById(ToString(id), outcome)]

\* how a service call ended, as the handlers tell it apart
ResultKind(res) ==
    IF res.k = "error" THEN "rejected"
    ELSE IF Truthy(res.v) THEN "truthy" ELSE "empty"

\* how a queryFn ended, as the query cache tells it apart: undefined is no
\* data
QueryKind(res) ==
    IF res.k = "value" /\ ~Missing(res.v) THEN "stored" ELSE "rejected"

(***************************************************************************)
(* The state as one record, so that a handler is the composition of the    *)
(* steps it takes.  Every step starts with an empty event.                 *)
(***************************************************************************)
NoEvent == [by |-> "none", id |-> 0, arg |-> "none", res |-> "none",
            observed |-> FALSE, toasts |-> {}]

Cur ==
    [route |-> route, server |-> server, requests |-> requests,
     books |-> books, detail |-> detail, listPage |-> listPage,
     newPage |-> newPage, editPage |-> editPage, event |-> NoEvent]

Commit(s) ==
    /\ Cardinality(s.requests) <= MaxInFlight
    /\ route' = s.route
    /\ server' = s.server
    /\ requests' = s.requests
    /\ books' = s.books
    /\ detail' = s.detail
    /\ listPage' = s.listPage
    /\ newPage' = s.newPage
    /\ editPage' = s.editPage
    /\ event' = s.event
    /\ call' = call

\* tells apart calls of the same operation on the same id
NextSeq(reqs, op, id) ==
    CHOOSE n \in 0..Cardinality(reqs) :
        /\ ~\E r \in reqs : r.op = op /\ r.id = id /\ r.seq = n
        /\ \A m \in 0..(n - 1) : \E r \in reqs : r.op = op /\ r.id = id /\ r.seq = m

\* fetch(url, ...): one more call in flight.  observed: the component state
\* that awaits the call is still there
Send(s, op, id, body) ==
    [s EXCEPT !.requests = @ \cup {[op |-> op, id |-> id,
                                    seq |-> NextSeq(s.requests, op, id),
                                    body |-> body, outcome |-> Pending,
                                    observed |-> TRUE]}]

\* the call has ended
Drop(s, r) ==
    [s EXCEPT !.requests = {x \in @ : ~(x.op = r.op /\ x.id = r.id /\ x.seq = r.seq)}]

\* the handler that ran in this step, and how its service call ended
Ran(s, by, r, res) ==
    [s EXCEPT !.event = [@ EXCEPT !.by = by, !.id = r.id, !.res = res,
                                  !.observed = r.observed]]

\* enqueueSnackbar calls of one handler run
Toast(s, kinds) == [s EXCEPT !.event.toasts = @ \cup kinds]

(***************************************************************************)
(* The query cache (@tanstack/react-query) as the pages use it.  A query   *)
(* holds its status, its data, the invalidated mark and whether a call is  *)
(* fetching it.  A call stands for the fetch with its retries.             *)
(***************************************************************************)
NewQuery == [status |-> "pending", data |-> Undef, invalidated |-> FALSE,
             fetching |-> FALSE]

\* the query starts fetching: without data it shows as pending again
StartFetch(q) ==
    [q EXCEPT !.fetching = TRUE, !.status = IF Missing(q.data) THEN "pending" ELSE @]

\* the queryFn settled; resolving with undefined counts as a failure
QuerySettled(q, res) ==
    IF QueryKind(res) = "stored"
    THEN [status |-> "success", data |-> res.v, invalidated |-> FALSE,
          fetching |-> FALSE]
    ELSE [q EXCEPT !.status = "error", !.fetching = FALSE]

\* isLoading = isFetching && isPending
IsLoading(q) == q.fetching /\ q.status = "pending"
IsError(q) == q.status = "error"

\* the call that is fetching a query
FetchOf(reqs, op, id) == {r \in reqs : r.op = op /\ r.id = id}

\* A fetch of ['books'].  A fetch already in flight is joined, unless the
\* caller asks to cancel it (refetch(), invalidateQueries) and data exists.
FetchBooksQuery(s, cancelRefetch) ==
    IF s.books.fetching /\ ~(cancelRefetch /\ ~Missing(s.books.data)) THEN s
    ELSE LET t == [s EXCEPT !.requests = @ \ FetchOf(@, "fetchBooks", 0)]
         IN  [Send(t, "fetchBooks", 0, EmptyObject) EXCEPT !.books = StartFetch(@)]

FetchDetailQuery(s, id, cancelRefetch) ==
    IF s.detail[id].fetching /\ ~(cancelRefetch /\ ~Missing(s.detail[id].data)) THEN s
    ELSE LET t == [s EXCEPT !.requests = @ \ FetchOf(@, "fetchBookById", id)]
         IN  [Send(t, "fetchBookById", id, EmptyObject) EXCEPT
                  !.detail[id] = StartFetch(@)]

\* a faulty invalidation, for comparison: the mark without the refetch
InvalidateBooksMarkOnly(s) == [s EXCEPT !.books.invalidated = TRUE]

\* queryClient.invalidateQueries({ queryKey: ['books'] }): the query is
\* marked, and refetched when a mounted list page observes it
InvalidateBooks(s) ==
    LET t == [s EXCEPT !.books.invalidated = TRUE] IN
    IF t.route.page = "list" THEN FetchBooksQuery(t, TRUE) ELSE t

(***************************************************************************)
(* What the pages render.                                                  *)
(***************************************************************************)
\* a faulty list view, for comparison: no branch for isError
ListViewNoNotice(q, viewMode) == IF IsLoading(q) THEN "spinner" ELSE viewMode

\* pages/books/index.tsx, BookPage
ListView(q, viewMode) ==
    IF IsLoading(q) THEN "spinner"
    ELSE IF IsError(q) THEN "error"
    ELSE viewMode

ShownBooks(q) == IF Missing(q.data) THEN {} ELSE q.data.ids

\* disabled={deleteMutation.isPending && deleteMutation.variables === book.id.toString()}
\* the mutation observed is the last one started
DeleteDisabled(reqs, b) ==
    \E r \in reqs : r.op = "deleteBook" /\ r.observed /\ r.id = b

\* pages/books/[id].tsx, BookInfo
DetailView(q) ==
    IF IsLoading(q) THEN "spinner"
    ELSE IF IsError(q) THEN "error"
    ELSE IF ~Truthy(q.data) THEN "notfound"
    ELSE "book"

\* pages/books/edit, BookEditPage
EditView(ep) == IF ep.isLoading \/ ~Truthy(ep.book) THEN "loading" ELSE "form"

\* a faulty form, for comparison: the controls ignore isLoading
BookFormEnabled(isLoading, hasCancel) == [submit |-> TRUE, cancel |-> hasCancel]

\* components/book/bookForm.tsx: which controls can be used
BookForm(isLoading, hasCancel) ==
    [submit |-> ~isLoading, cancel |-> hasCancel /\ ~isLoading]

NewForm(np) == BookForm(np.formSubmitting, TRUE)
EditForm(ep) == BookForm(ep.formSubmitting \/ ep.isLoading, TRUE)

(***************************************************************************)
(* Routing.                                                                *)
(***************************************************************************)
InitListPage == [viewMode |-> "card"]
InitNewPage == [formSubmitting |-> FALSE]
InitEditPage == [book |-> Undef, isLoading |-> FALSE, formSubmitting |-> FALSE]

PageOps == {"loadBook", "createBook", "updateBook", "deleteBook"}

\* the page leaves the screen: its component state is gone, the calls it
\* started stay in flight
Unmount(s) ==
    [s EXCEPT !.requests = {IF r.op \in PageOps THEN [r EXCEPT !.observed = FALSE] ELSE r :
                               r \in @},
              !.listPage = InitListPage,
              !.newPage = InitNewPage,
              !.editPage = InitEditPage]

\* BookEditPage, the effect on [id]: loadBook up to its await
loadBook(s) ==
    Send([s EXCEPT !.editPage.isLoading = TRUE], "loadBook", s.route.id, EmptyObject)

\* gcTime has passed since the detail page showed another book: the idle
\* queries of the other books are removed from the cache
Collect(s) ==
    [s EXCEPT !.detail = [i \in Ids |-> IF i # s.route.id /\ ~@[i].fetching
                                        THEN NewQuery ELSE @[i]]]

\* the page of the route is mounted
Mount(s) ==
    CASE s.route.page = "list" -> FetchBooksQuery(s, FALSE)
      [] s.route.page = "detail" -> FetchDetailQuery(Collect(s), s.route.id, FALSE)
      [] s.route.page = "edit" -> loadBook(s)
      [] OTHER -> s

\* navigate(to): the same route changes nothing; another id on the detail or
\* edit route keeps the page mounted; otherwise the page is replaced
GoTo(s, page, id) ==
    LET to == [page |-> page, id |-> id] IN
    IF to = s.route THEN s
    ELSE IF page = s.route.page THEN Mount([s EXCEPT !.route = to])
    ELSE Mount([Unmount(s) EXCEPT !.route = to])

(***************************************************************************)
(* The handlers of the pages.                                              *)
(***************************************************************************)
\* catch (error): one snackbar per message of error.errors when it is
\* truthy, else one snackbar with error.message
CatchToasts(res) ==
    IF Truthy(res.errors)
    THEN IF \E e \in res.errors.m : Len(e[2]) > 0 THEN {"error"} ELSE {}
    ELSE {"error"}

\* the call a form handler starts; the form's page observes it
Submitted(s, by, op, id, body) ==
    LET t == Send(s, op, id, body)
        r == CHOOSE x \in t.requests : x \notin s.requests
    IN  Toast(Ran(t, by, r, "none"), {"info"})

\* BookNewPage.handleFormSubmit up to the await of createBook
NewHandleFormSubmit(s, values) ==
    LET b == Book(values, FreshUuid, YearAtLoad)
        s1 == [s EXCEPT !.newPage.formSubmitting = TRUE]
    IN  IF b.threw
        THEN Toast([s1 EXCEPT !.newPage.formSubmitting = FALSE,
                              !.event.by = "handleFormSubmit",
                              !.event.res = "rejected"],
                   {"info", "error"})
        ELSE Submitted(s1, "handleFormSubmit", "createBook", 0,
                       RequestBody(b.value, FreshUuid, YearAtLoad))

\* a faulty handler, for comparison: no onFormClose() after a success
FormSettledStay(s, r, by) ==
    LET res == ServiceResult(r)
        s0 == Ran(Drop(s, r), by, r, ResultKind(res))
        s1 == IF res.k = "value"
              THEN Toast(s0, IF Truthy(res.v) THEN {"success"} ELSE {"error"})
              ELSE Toast(s0, CatchToasts(res))
    IN  IF r.observed
        THEN IF r.op = "createBook"
             THEN [s1 EXCEPT !.newPage.formSubmitting = FALSE]
             ELSE [s1 EXCEPT !.editPage.formSubmitting = FALSE]
        ELSE s1

\* the rest of a form handler, after the await: the try, the catch and the
\* finally (setFormSubmitting(false) acts while the page is mounted)
FormSettled(s, r, by) ==
    LET res == ServiceResult(r)
        s0 == Ran(Drop(s, r), by, r, ResultKind(res))
        s1 == IF res.k = "value"
              THEN IF Truthy(res.v)
                   THEN Toast(GoTo(s0, "list", 0), {"success"})
                   ELSE Toast(s0, {"error"})
              ELSE Toast(s0, CatchToasts(res))
    IN  IF r.observed
        THEN IF r.op = "createBook"
             THEN [s1 EXCEPT !.newPage.formSubmitting = FALSE]
             ELSE [s1 EXCEPT !.editPage.formSubmitting = FALSE]
        ELSE s1

\* BookNewPage.handleFormSubmit after the await
NewHandleFormSettled(s, r) == FormSettled(s, r, "createSettled")

\* a faulty spread, for comparison: { id: book.id, guid: book.guid, ...values }
WithIdentityOfValues(values, book) ==
    [key \in DOMAIN values \cup {"id", "guid"} |->
        IF key \in DOMAIN values THEN values[key] ELSE Get(book, key)]

\* { ...values, id: book.id, guid: book.guid }
WithIdentity(values, book) ==
    [key \in DOMAIN values \cup {"id", "guid"} |->
        IF key \in {"id", "guid"} THEN Get(book, key) ELSE values[key]]

\* BookEditPage.handleFormSubmit up to the await of updateBook
EditHandleFormSubmit(s, values) ==
    LET s1 == [s EXCEPT !.editPage.formSubmitting = TRUE]
        failed == Toast([s1 EXCEPT !.editPage.formSubmitting = FALSE,
                                   !.event.by = "handleFormSubmit",
                                   !.event.res = "rejected"],
                        {"info", "error"})
    IN  IF ~Truthy(s.editPage.book) \/ ~Truthy(Get(s.editPage.book.o, "id"))
        THEN failed
        ELSE LET b == Book(WithIdentity(values, s.editPage.book.o),
                           FreshUuid, YearAtLoad)
             IN  IF b.threw THEN failed
                 ELSE Submitted(s1, "handleFormSubmit", "updateBook",
                                b.value["id"].n,
                                RequestBody(b.value, FreshUuid, YearAtLoad))

\* BookEditPage.handleFormSubmit after the await
EditHandleFormSettled(s, r) == FormSettled(s, r, "updateSettled")

\* BookEditPage.loadBook after the await of fetchBookById
loadBookSettled(s, r) ==
    LET res == ServiceResult(r)
        s0 == Ran(Drop(s, r), "loadSettled", r, ResultKind(res))
        s1 == IF res.k = "value"
              THEN IF r.observed THEN [s0 EXCEPT !.editPage.book = res.v] ELSE s0
              ELSE Toast(GoTo(s0, "list", 0), CatchToasts(res))
    IN  IF r.observed THEN [s1 EXCEPT !.editPage.isLoading = FALSE] ELSE s1

\* BookPage.deleteMutation: onSuccess and onError
DeleteSettledState(s, r) ==
    LET res == ServiceResult(r)
        s0 == Ran(Drop(s, r), "deleteSettled", r, ResultKind(res))
    IN  IF res.k = "value"
        THEN InvalidateBooks(Toast(s0, {"success"}))
        ELSE Toast(s0, {"error"})

\* a faulty handler, for comparison: mutate whatever window.confirm returns
handleDeleteBookUnasked(s, b, answer) ==
    LET s1 == [s EXCEPT !.event.by = "handleDeleteBook", !.event.id = b,
                        !.event.arg = IF answer THEN "confirmed" ELSE "declined",
                        !.requests =
                            {IF r.op = "deleteBook" THEN [r EXCEPT !.observed = FALSE]
                             ELSE r : r \in @}]
    IN  Send(s1, "deleteBook", b, EmptyObject)

\* BookPage.handleDeleteBook: window.confirm, then deleteMutation.mutate
handleDeleteBook(s, b, answer) ==
    LET s1 == [s EXCEPT !.event.by = "handleDeleteBook", !.event.id = b,
                        !.event.arg = IF answer THEN "confirmed" ELSE "declined"]
    IN  IF answer
        THEN LET s2 == [s1 EXCEPT !.requests =
                           {IF r.op = "deleteBook" THEN [r EXCEPT !.observed = FALSE]
                            ELSE r : r \in @}]
             IN  Send(s2, "deleteBook", b, EmptyObject)
        ELSE s1

\* a faulty handler, for comparison: null is taken as a mode
handleViewModeChangeUnguarded(s, newViewMode) ==
    [s EXCEPT !.event.by = "handleViewModeChange", !.event.arg = newViewMode,
              !.listPage.viewMode = newViewMode]

\* BookPage.handleViewModeChange
handleViewModeChange(s, newViewMode) ==
    LET s1 == [s EXCEPT !.event.by = "handleViewModeChange",
                        !.event.arg = newViewMode]
    IN  IF newViewMode # "null" THEN [s1 EXCEPT !.listPage.viewMode = newViewMode]
        ELSE s1

(***************************************************************************)
(* What the user can type into the form.                                   *)
(***************************************************************************)
CoverUrl == <<"h", "t", "t", "p", ":", "/", "/", "x", ".", "x">>

ValidForm ==
    [title |-> Str(<<"D", "u", "n", "e">>), author |-> Str(<<"F", "H">>),
     isbn |-> Str(<<"1", "-", "2", "3", "4", "5", "6", "7", "8", "9", "-", "0">>),
     publicationYear |-> Num(1965),
     description |-> Str(<<>>), genre |-> Str(<<>>),
     coverImageUrl |-> Str(CoverUrl)]

\* an untouched year field: valueAsNumber gives NaN
NaNYearForm == [ValidForm EXCEPT !.publicationYear = NaN]
ShortIsbnForm == [ValidForm EXCEPT !.isbn = Str(Rep("1", 9))]
LateYearForm == [ValidForm EXCEPT !.publicationYear = Num(YearAtLoad + YearSlack + 1)]

FormSamples == {ValidForm, EmptyObject, NaNYearForm, ShortIsbnForm, LateYearForm}

\* form values that carry the identity of another book
ForeignForm ==
    [key \in DOMAIN ValidForm \cup {"id", "guid"} |->
        IF key = "id" THEN Num(MaxBooks)
        ELSE IF key = "guid" THEN Str(Uuid("e"))
        ELSE ValidForm[key]]

EditSamples == FormSamples \cup {ForeignForm}

(***************************************************************************)
(* The actions.                                                            *)
(***************************************************************************)
Init ==
    /\ route = [page |-> "home", id |-> 0]
    /\ server = [books |-> 1..(MaxBooks - 1), nextId |-> MaxBooks]
    /\ requests = {}
    /\ books = NewQuery
    /\ detail = [i \in Ids |-> NewQuery]
    /\ listPage = InitListPage
    /\ newPage = InitNewPage
    /\ editPage = InitEditPage
    /\ event = NoEvent
    /\ call = [op |-> "none"]

\* the user follows a link, or moves in the browser history
Navigate(page, id) ==
    /\ [page |-> page, id |-> id] # route
    /\ Commit(GoTo(Cur, page, id))

\* a list the server produced earlier no longer shows what it holds
Outdated(v) == IF v.k = "list" THEN [v EXCEPT !.fresh = FALSE] ELSE v

OutdatedCall(r) ==
    IF r.outcome.k = "resp" /\ r.outcome.body.k = "json"
    THEN [r EXCEPT !.outcome.body.v = Outdated(@)] ELSE r

\* the server has dealt with a call as a says; a write it applies outdates
\* every list it produced before
Served(s, r, a) ==
    LET t == [s EXCEPT !.server = a.server] IN
    IF r.op \in {"createBook", "updateBook", "deleteBook"} /\ a.resp.k = "resp"
       /\ Ok(a.resp)
    THEN [t EXCEPT !.requests = {OutdatedCall(x) : x \in @},
                   !.books.data = Outdated(@)]
    ELSE t

\* the ways the call r can end now: a list call ends as the server
\* answered it, any other call is answered as it ends
Endings(r) ==
    IF r.outcome.k = "none" THEN Outcomes(r, server)
    ELSE {[resp |-> r.outcome, server |-> server]}

\* the response to GET /books is produced: it travels while the server
\* goes on
ServerAnswers(r) ==
    /\ r.op = "fetchBooks"
    /\ r.outcome.k = "none"
    /\ \E a \in Outcomes(r, server) :
          Commit([Cur EXCEPT !.requests = (@ \ {r}) \cup {[r EXCEPT !.outcome = a.resp]}])

\* a faulty form, for comparison: no resolver, and a handler that sends
\* the values without Book()
SubmitNewUnvalidated(values) ==
    /\ route.page = "new"
    /\ NewForm(newPage).submit
    /\ Commit(Submitted([Cur EXCEPT !.newPage.formSubmitting = TRUE],
                        "handleFormSubmit", "createBook", 0,
                        RequestBody(values, FreshUuid, YearAtLoad)))

\* BookForm on the new page: handleSubmit(onSubmit) validates with the
\* resolver and calls onSubmit with the parsed values
SubmitNew(values) ==
    /\ route.page = "new"
    /\ NewForm(newPage).submit
    /\ LET v == bookFormSchema(values, FreshUuid, YearAtLoad) IN
       IF v.ok
       THEN Commit(NewHandleFormSubmit(Cur, v.value))
       ELSE Commit([Cur EXCEPT !.event.by = "invalid"])

CancelNew ==
    /\ route.page = "new"
    /\ NewForm(newPage).cancel
    /\ Commit(GoTo(Cur, "list", 0))

CreateSettled(r) ==
    /\ r.op = "createBook"
    /\ \E a \in Endings(r) :
          Commit(NewHandleFormSettled(Served(Cur, r, a), [r EXCEPT !.outcome = a.resp]))

SubmitEdit(values) ==
    /\ route.page = "edit"
    /\ EditView(editPage) = "form"
    /\ EditForm(editPage).submit
    /\ LET v == bookFormSchema(values, FreshUuid, YearAtLoad) IN
       IF v.ok
       THEN Commit(EditHandleFormSubmit(Cur, v.value))
       ELSE Commit([Cur EXCEPT !.event.by = "invalid"])

CancelEdit ==
    /\ route.page = "edit"
    /\ EditView(editPage) = "form"
    /\ EditForm(editPage).cancel
    /\ Commit(GoTo(Cur, "list", 0))

UpdateSettled(r) ==
    /\ r.op = "updateBook"
    /\ \E a \in Endings(r) :
          Commit(EditHandleFormSettled(Served(Cur, r, a), [r EXCEPT !.outcome = a.resp]))

LoadSettled(r) ==
    /\ r.op = "loadBook"
    /\ \E a \in Endings(r) :
          Commit(loadBookSettled(Served(Cur, r, a), [r EXCEPT !.outcome = a.resp]))

\* the ToggleButtonGroup reports the other mode, or null for the active one
HandleViewModeChange(newViewMode) ==
    /\ route.page = "list"
    /\ ListView(books, listPage.viewMode) \in {"table", "card"}
    /\ newViewMode # listPage.viewMode
    /\ Commit(handleViewModeChange(Cur, newViewMode))

\* the delete button of a listed book, and the answer to window.confirm
ClickDelete(b, answer) ==
    /\ route.page = "list"
    /\ ListView(books, listPage.viewMode) \in {"table", "card"}
    /\ b \in ShownBooks(books)
    /\ ~DeleteDisabled(requests, b)
    /\ Commit(handleDeleteBook(Cur, b, answer))

DeleteSettled(r) ==
    /\ r.op = "deleteBook"
    /\ \E a \in Endings(r) :
          Commit(DeleteSettledState(Served(Cur, r, a), [r EXCEPT !.outcome = a.resp]))

\* the Retry button of the error notice: refetch()
RetryList ==
    /\ route.page = "list"
    /\ ListView(books, listPage.viewMode) = "error"
    /\ Commit(FetchBooksQuery([Cur EXCEPT !.event.by = "refetch"], TRUE))

BooksSettled(r) ==
    /\ r.op = "fetchBooks"
    /\ r.outcome.k # "none"
    /\ LET res == ServiceResult(r) IN
       Commit([Ran(Drop(Cur, r), "booksSettled", r, QueryKind(res)) EXCEPT
                  !.books = QuerySettled(@, res)])

RetryDetail ==
    /\ route.page = "detail"
    /\ DetailView(detail[route.id]) = "error"
    /\ Commit(FetchDetailQuery([Cur EXCEPT !.event.by = "refetch",
                                            !.event.id = route.id],
                                route.id, TRUE))

DetailSettled(r) ==
    /\ r.op = "fetchBookById"
    /\ \E a \in Endings(r) :
          LET res == ServiceResult([r EXCEPT !.outcome = a.resp]) IN
          Commit([Ran(Drop(Cur, r), "detailSettled", r, QueryKind(res)) EXCEPT
                     !.detail[r.id] = QuerySettled(@, res)])

\* refetchOnWindowFocus: the mounted query is stale (staleTime: 0)
WindowFocus ==
    /\ route.page \in {"list", "detail"}
    /\ Commit(Mount(Cur))

(***************************************************************************)
(* The service layer on its own: one operation, called on one outcome of   *)
(* its network call.                                                       *)
(***************************************************************************)
Statuses == {200, 201, 204, 400, 404, 500}

LongText == Rep("x", ExcerptLen + 1)

Bodies ==
    {NoBody, Unreadable, TextBody(<<"B", "a", "d">>), TextBody(LongText),
     TextBody(Rep("y", ExcerptLen)),
     JsonBody(Null), JsonBody(ListValue({}, TRUE)),
     JsonBody(Obj(EmptyObject)),
     JsonBody(Obj(ServerBook(1))),
     JsonBody(Obj([Message |-> Str(<<"Server error">>),
                   errors |-> ErrMap({<<"isbn", <<"taken">>>>})])),
     JsonBody(Obj([message |-> Str(<<"Bad request">>),
                   errors |-> ErrMap({<<"isbn", <<"taken">>>>})])),
     JsonBody(Obj([title |-> Str(<<"Not Found">>), errors |-> ErrMap({})])),
     JsonBody(Obj([title |-> Str(<<"Validation failed">>),
                   errors |-> ErrMap({<<"isbn", <<"taken">>>>})])),
     JsonBody(Obj([title |-> Str(<<>>), errors |-> ErrMap({})])),
     JsonBody(Obj([detail |-> Str(<<"No such book">>)]))}

NetOutcomes == {NetFail} \cup {Resp(st, bd) : st \in Statuses, bd \in Bodies}

ServiceOps == {"fetchBooks", "fetchBookById", "createBook", "updateBook",
               "deleteBook"}

\* every operation starts with its fetch(): sent tells that a network
\* call was made
ServiceCall(op, id, outcome) ==
    /\ call.op = "none"
    /\ call' = [op |-> op, id |-> id, outcome |-> outcome, sent |-> TRUE,
                result |-> ServiceResult([op |-> op, id |-> id,
                                          body |-> EmptyObject,
                                          outcome |-> outcome])]
    /\ UNCHANGED <<route, server, requests, books, detail, listPage, newPage,
                   editPage, event>>

\* the query function of the detail page, run on the id of the route
QueryFnCall(id, outcome) ==
    /\ call.op = "none"
    /\ LET q == queryFn(id, outcome) IN
       call' = [op |-> "queryFn", id |-> id, outcome |-> outcome,
                sent |-> q.sent, result |-> q.result]
    /\ UNCHANGED <<route, server, requests, books, detail, listPage, newPage,
                   editPage, event>>

NextService ==
    \/ \E op \in ServiceOps, id \in Ids, outcome \in NetOutcomes :
          ServiceCall(op, id, outcome)
    \/ \E outcome \in NetOutcomes : ServiceCall("fetchBookById", NoId, outcome)
    \/ \E id \in Ids \cup {NoId}, outcome \in NetOutcomes :
          QueryFnCall(id, outcome)

SpecService == Init /\ [][NextService]_vars

(***************************************************************************)
(* The factories on their own: Book() on one input object, and             *)
(* BookFormValues() on the book it returned.  An input is built field by   *)
(* field from values the rules accept and values they refuse.              *)
(***************************************************************************)
\* the field is not in the object
Absent == [k |-> "absent"]

\* the uuid v4() returns on its next call
NextFreshUuid == Uuid("d")

GoodOf(key) ==
    CASE key = "title" -> {Str(<<"D", "u", "n", "e">>), Str(Rep("t", TitleMaxLen))}
      [] key = "author" -> {Str(<<"F", "H">>)}
      [] key = "isbn" -> {Str(Isbn10), Str(Rep("1", IsbnMaxLen)),
                          Str(<<"1", "-", "2", "3", "4", "5", "6", "7", "8", "9", "-", "0">>),
                          Str(<<"-">> \o Isbn10)}
      [] key = "publicationYear" ->
            {Absent, Null, Num(MinYear), Num(YearAtLoad + YearSlack)}
      [] key = "description" -> {Absent, Str(<<>>)}
      [] key = "genre" -> {Absent, Null}
      [] key = "coverImageUrl" -> {Absent, Str(CoverUrl)}
      [] key = "id" -> {Absent, Num(MaxBooks)}
      [] key = "guid" -> {Absent, Str(Uuid("e"))}
      [] key = "isActive" -> {Absent, Bool(FALSE)}
      [] OTHER -> {Absent}

BadOf(key) ==
    CASE key = "title" -> {Absent, Str(<<>>), Str(Rep("t", TitleMaxLen + 1))}
      [] key = "author" -> {Absent, Str(Rep("a", AuthorMaxLen + 1))}
      [] key = "isbn" -> {Str(<<>>), Str(Rep("1", IsbnMinLen - 1)),
                          Str(Rep("1", IsbnMinLen + 1)),
                          Str(Rep("1", IsbnMaxLen - 1)),
                          Str(Rep("1", IsbnMaxLen + 1)),
                          Str(Rep("-", IsbnMinLen)),
                          Str(Isbn10 \o <<"-">>),
                          Str(<<"1", "-", "1", "-", "1", "-", "1", "-", "1", "-", "1", "-", "1">>),
                          Str(Rep("1", IsbnMinLen - 1) \o <<"x">>),
                          Str(Rep("1", IsbnMaxLen) \o <<"-">>)}
      [] key = "publicationYear" ->
            {NaN, Num(MinYear - 1), Num(YearAtLoad + YearSlack + 1),
             Num(YearAtLoad + YearSlack + 2)}
      [] key = "description" -> {Str(Rep("d", DescriptionMaxLen + 1))}
      [] key = "genre" -> {Str(Rep("g", GenreMaxLen + 1))}
      [] key = "coverImageUrl" -> {Str(<<"x">>)}
      [] key = "id" -> {Num(0 - 1)}
      [] key = "guid" -> {Str(<<"e">>)}
      [] key = "isActive" -> {Null}
      [] OTHER -> {Num(MaxBooks)}

\* the object that holds the fields of f that are there
Strip(f) == [key \in {x \in DOMAIN f : f[x] # Absent} |-> f[key]]

\* the value of a field of an input, Absent when it has none
Pick(x, key) == IF key \in DOMAIN x THEN x[key] ELSE Absent

\* every way to give each of the keys a value the rules accept
RECURSIVE GoodChoices(_)
GoodChoices(keys) ==
    IF keys = {} THEN {EmptyObject}
    ELSE LET key == CHOOSE x \in keys : TRUE IN
         {[x \in DOMAIN f \cup {key} |-> IF x = key THEN v ELSE f[x]] :
             f \in GoodChoices(keys \ {key}), v \in GoodOf(key)}

GoodFields == GoodChoices(BookKeys)

\* a form filled in full, and one with the required fields only
BaseFields ==
    {[key \in BookKeys |->
         IF key \in {"title", "author", "isbn"} \/ full
         THEN CHOOSE v \in GoodOf(key) : v # Absent \/ GoodOf(key) = {Absent}
         ELSE Absent] : full \in BOOLEAN}

BadChoices == {<<key, v>> \in BookKeys \X UNION {BadOf(key) : key \in BookKeys} :
                  v \in BadOf(key)}

GoodInputs == {Strip(f) : f \in GoodFields}

\* one field, or two, hold a value the rules refuse
BadInputs ==
    {Strip([f EXCEPT ![c[1]] = c[2]]) : f \in BaseFields, c \in BadChoices}
    \cup {Strip([f EXCEPT ![c[1]] = c[2], ![d[1]] = d[2]]) :
             f \in BaseFields,
             c \in {b \in BadChoices : b[1] \in {"isbn", "id"}},
             d \in {b \in BadChoices : b[1] \in {"title", "publicationYear"}}}

SchemaInputs == GoodInputs \cup BadInputs

\* objects with a key no schema knows
ExtraInputs ==
    {[key \in DOMAIN x \cup {"shelf"} |-> IF key = "shelf" THEN Str(<<"A">>) ELSE x[key]] :
        x \in {Strip(f) : f \in BaseFields} \cup {EmptyObject}
                \cup {Strip([f EXCEPT !["isbn"] = Str(<<>>)]) : f \in BaseFields}}

\* what BookFormValues(book?) and BookDto(book?) are called on: undefined
\* for no argument
Projected == {Undef} \cup {Obj(x) : x \in SchemaInputs \cup ExtraInputs}

\* the calendar years in which a validation runs: the year the module was
\* loaded in, and the year after
YearsNow == {YearAtLoad, YearAtLoad + 1}

\* Book(x) called in the calendar year now, and BookFormValues() of the
\* book when there is one; the schema holds the bound of the load year
FactoryCall(x, now) ==
    /\ call.op = "none"
    /\ LET b == Book(x, FreshUuid, YearAtLoad) IN
       call' = [op |-> "Book", input |-> x, now |-> now, result |-> b,
                back |-> IF b.threw THEN EmptyObject
                         ELSE BookFormValues(Obj(b.value), NextFreshUuid, YearAtLoad)]
    /\ UNCHANGED <<route, server, requests, books, detail, listPage, newPage,
                   editPage, event>>

\* BookFormValues(b) and BookDto(b)
ProjectionCall(b) ==
    /\ call.op = "none"
    /\ call' = [op |-> "project", input |-> b,
                form |-> BookFormValues(b, FreshUuid, YearAtLoad),
                dto |-> BookDto(b, FreshUuid, YearAtLoad),
                body |-> RequestBody(IF Missing(b) THEN EmptyObject ELSE b.o,
                                     FreshUuid, YearAtLoad)]
    /\ UNCHANGED <<route, server, requests, books, detail, listPage, newPage,
                   editPage, event>>

NextSchema ==
    \/ \E x \in SchemaInputs, now \in YearsNow : FactoryCall(x, now)
    \/ \E b \in Projected : ProjectionCall(b)

SpecSchema == Init /\ [][NextSchema]_vars

\* every call in flight ends in time
Settles ==
    \/ \E r \in requests : ServerAnswers(r)
    \/ \E r \in requests : BooksSettled(r)
    \/ \E r \in requests : DetailSettled(r)
    \/ \E r \in requests : LoadSettled(r)
    \/ \E r \in requests : CreateSettled(r)
    \/ \E r \in requests : UpdateSettled(r)
    \/ \E r \in requests : DeleteSettled(r)

\* a user who reads: the list, the detail page, the edit page's load
NextReads ==
    \/ Navigate("list", 0)
    \/ \E page \in {"detail", "edit"}, id \in Ids : Navigate(page, id)
    \/ \E r \in requests : ServerAnswers(r)
    \/ \E r \in requests : BooksSettled(r)
    \/ \E r \in requests : DetailSettled(r)
    \/ \E r \in requests : LoadSettled(r)
    \/ RetryList
    \/ RetryDetail
    \/ WindowFocus

SpecReads == Init /\ [][NextReads]_vars

\* a user who creates and edits books
NextForms ==
    \/ \E page \in {"list", "new"} : Navigate(page, 0)
    \/ \E id \in Ids : Navigate("edit", id)
    \/ \E r \in requests : ServerAnswers(r)
    \/ \E r \in requests : BooksSettled(r)
    \/ \E r \in requests : LoadSettled(r)
    \/ \E values \in FormSamples : SubmitNew(values)
    \/ CancelNew
    \/ \E r \in requests : CreateSettled(r)
    \/ \E values \in EditSamples : SubmitEdit(values)
    \/ CancelEdit
    \/ \E r \in requests : UpdateSettled(r)

SpecForms == Init /\ [][NextForms]_vars

\* a user who edits the books of the list, and deletes some
NextEdit ==
    \/ Navigate("list", 0)
    \/ \E id \in Ids : Navigate("edit", id)
    \/ \E r \in requests : ServerAnswers(r)
    \/ \E r \in requests : BooksSettled(r)
    \/ \E r \in requests : LoadSettled(r)
    \/ \E values \in EditSamples : SubmitEdit(values)
    \/ CancelEdit
    \/ \E r \in requests : UpdateSettled(r)
    \/ \E b \in Ids, answer \in BOOLEAN : ClickDelete(b, answer)
    \/ \E r \in requests : DeleteSettled(r)

SpecEdit == Init /\ [][NextEdit]_vars

\* the same user, and a network on which every load of the edit page ends:
\* the call of fetchBookById in flight is answered, or fails, in time
SpecEditLive ==
    SpecEdit /\ WF_vars(\E r \in requests : LoadSettled(r))

\* a user who works on the list: its two modes, its delete buttons
NextList ==
    \/ \E page \in {"home", "list"} : Navigate(page, 0)
    \/ \E r \in requests : ServerAnswers(r)
    \/ \E r \in requests : BooksSettled(r)
    \/ \E m \in {"table", "card", "null"} : HandleViewModeChange(m)
    \/ \E b \in Ids, answer \in BOOLEAN : ClickDelete(b, answer)
    \/ \E r \in requests : DeleteSettled(r)
    \/ RetryList
    \/ WindowFocus

SpecList == Init /\ [][NextList]_vars

Next ==
    \/ \E page \in {"home", "list", "new"} : Navigate(page, 0)
    \/ \E page \in {"detail", "edit"}, id \in Ids : Navigate(page, id)
    \/ Settles
    \/ \E values \in FormSamples : SubmitNew(values)
    \/ CancelNew
    \/ \E values \in EditSamples : SubmitEdit(values)
    \/ CancelEdit
    \/ \E m \in {"table", "card", "null"} : HandleViewModeChange(m)
    \/ \E b \in Ids, answer \in BOOLEAN : ClickDelete(b, answer)
    \/ RetryList
    \/ RetryDetail
    \/ WindowFocus

Spec == Init /\ [][Next]_vars

(***************************************************************************)
(* The properties.                                                         *)
(***************************************************************************)
Writes == {"createBook", "updateBook"}
Observed(op) == {r \in requests : r.op = op /\ r.observed}
SameCall(x, r) == x.op = r.op /\ x.id = r.id /\ x.seq = r.seq

\* C1: every POST and PUT in flight carries a body that satisfies every
\* rule of the book schema (title, author and ISBN present and valid, the
\* optional fields within their bounds), and a submission the form found
\* invalid, or Book() threw on, leaves no request of the form in flight.
C1_ValidBodies ==
    /\ \A r \in requests :
          r.op \in Writes =>
             /\ {"title", "author", "isbn"} \subseteq DOMAIN r.body
             /\ bookDtoSchema(r.body, FreshUuid, YearAtLoad).ok
    /\ (event.by = "invalid" \/ (event.by = "handleFormSubmit" /\ event.res = "rejected"))
          => \A r \in requests : r.op \in Writes => ~r.observed

\* C1 at work: the form refused a submission while an earlier, valid one
\* of a page the user has left is still in flight
C1_Witness ==
    /\ event.by = "invalid"
    /\ \E r \in requests : r.op = "createBook"

\* C2: a form page observes at most one POST or PUT of its own in flight;
\* while it does, its submit and cancel controls are disabled; while it
\* does not, the cancel control of the form shown is enabled.
C2_OneSubmission ==
    /\ Cardinality(Observed("createBook")) <= 1
    /\ Cardinality(Observed("updateBook")) <= 1
    /\ Observed("createBook") # {} =>
          /\ route.page = "new"
          /\ newPage.formSubmitting
          /\ ~NewForm(newPage).submit
          /\ ~NewForm(newPage).cancel
    /\ Observed("updateBook") # {} =>
          /\ route.page = "edit"
          /\ editPage.formSubmitting
          /\ ~EditForm(editPage).submit
          /\ ~EditForm(editPage).cancel
    /\ (route.page = "new" /\ Observed("createBook") = {}) => NewForm(newPage).cancel
    /\ (route.page = "edit" /\ EditView(editPage) = "form"
          /\ Observed("updateBook") = {}) => EditForm(editPage).cancel

\* C2 at work: the edit form has a PUT in flight and its controls are off
C2_Witness ==
    /\ route.page = "edit"
    /\ EditView(editPage) = "form"
    /\ Observed("updateBook") # {}
    /\ ~EditForm(editPage).submit

\* C3 as stated: every POST or PUT whose service call rejects shows an
\* error snackbar, and the form that awaited it is enabled again.
C3_FailureShown ==
    (event.by \in {"createSettled", "updateSettled"} /\ event.res = "rejected") =>
       /\ "error" \in event.toasts
       /\ event.observed => ~newPage.formSubmitting /\ ~editPage.formSubmitting

C5_ConfirmFirst ==
    [][/\ \A r \in requests' :
             (r.op = "deleteBook" /\ ~\E x \in requests : SameCall(x, r)) =>
                /\ event'.by = "handleDeleteBook"
                /\ event'.arg = "confirmed"
                /\ event'.id = r.id
       /\ (event'.by = "handleDeleteBook" /\ event'.arg = "declined") =>
             UNCHANGED <<route, server, requests, books, detail, listPage,
                         newPage, editPage>>]_vars

\* C5 at work: a deletion was declined while a confirmed one is in flight
C5_Witness ==
    /\ event.by = "handleDeleteBook"
    /\ event.arg = "declined"
    /\ \E r \in requests : r.op = "deleteBook" /\ r.id # event.id

\* C6 as stated: after every successful delete ['books'] is invalidated and
\* a fetch of it, which the server has yet to answer, is in flight.
C6_AlwaysRefetched ==
    (event.by = "deleteSettled" /\ event.res = "truthy") =>
       /\ books.invalidated
       /\ \E r \in requests : r.op = "fetchBooks" /\ r.outcome.k = "none"

\* the fetches of ['books'] in flight, and whether each is answered
ListCalls(reqs) ==
    {[seq |-> r.seq, answered |-> r.outcome.k # "none"] :
        r \in FetchOf(reqs, "fetchBooks", 0)}

\* C6, amended: the step that ends a successful delete marks ['books'] as
\* invalidated and leaves the books of the cached list as they are; the
\* server no longer holds the book; with the list page mounted a fetch the
\* server has yet to answer is in flight after the step, with the list page
\* gone the step starts and cancels no fetch.
C6_MarkedAndRefetchedIfMounted ==
    [][(event'.by = "deleteSettled" /\ event'.res = "truthy") =>
          /\ books'.invalidated
          /\ Missing(books'.data) = Missing(books.data)
          /\ ShownBooks(books') = ShownBooks(books)
          /\ event'.id \notin server'.books
          /\ IF route.page = "list"
             THEN \E r \in requests' : r.op = "fetchBooks" /\ r.outcome.k = "none"
             ELSE ListCalls(requests') = ListCalls(requests)]_vars

\* C6 at work: a delete succeeded after the user left the list page; the
\* list is marked, still holds the book, and nothing fetches it
C6_Witness ==
    /\ event.by = "deleteSettled"
    /\ event.res = "truthy"
    /\ route.page # "list"
    /\ books.invalidated
    /\ event.id \in ShownBooks(books)
    /\ FetchOf(requests, "fetchBooks", 0) = {}

\* C7 as stated: after every successful write a cached list that the server
\* produced before the write is marked as invalidated.
C7_InvalidatedAfterWrite ==
    (event.by \in {"createSettled", "updateSettled", "deleteSettled"}
        /\ event.res = "truthy") =>
       \/ Missing(books.data)
       \/ books.data.fresh
       \/ books.invalidated

\* C8 as stated: a POST or PUT the server answered with a success status
\* leaves the application on /books.
C8_SuccessStatusNavigates ==
    (event.by \in {"createSettled", "updateSettled"}
        /\ event.res \in {"truthy", "empty"}) => route.page = "list"

\* C8, amended: the step that ends a POST or PUT goes to /books, with a
\* success snackbar, when the service call resolved with a book; when it
\* resolved with no body (204) or rejected, the route stays as it is, and
\* the empty result is reported by an error snackbar.
C8_NavigatesOnBook ==
    [][event'.by \in {"createSettled", "updateSettled"} =>
          IF event'.res = "truthy"
          THEN route'.page = "list" /\ event'.toasts = {"success"}
          ELSE /\ route' = route
               /\ event'.res = "empty" => event'.toasts = {"error"}]_vars

\* C8 at work: the server answered a POST with 204; the user is still on
\* the new page, whose form is enabled again
C8_Witness ==
    /\ event.by = "createSettled"
    /\ event.res = "empty"
    /\ event.observed
    /\ route.page = "new"
    /\ NewForm(newPage).submit

\* C9: the list page is in table or in card mode; a step of
\* handleViewModeChange sets the mode it is given, keeps the mode when it
\* is given null, and changes nothing else: no call comes into flight or
\* ends, the query cache and the deletes in flight stay as they are.
C9_ModeOnly ==
    /\ [](listPage.viewMode \in {"table", "card"})
    /\ [][event'.by = "handleViewModeChange" =>
             /\ listPage'.viewMode = IF event'.arg = "null" THEN listPage.viewMode
                                     ELSE event'.arg
             /\ UNCHANGED <<route, server, requests, books, detail, newPage,
                            editPage>>]_vars

\* C9 at work: the user deselected the table mode while a delete is in
\* flight
C9_Witness ==
    /\ event.by = "handleViewModeChange"
    /\ event.arg = "null"
    /\ listPage.viewMode = "table"
    /\ \E r \in requests : r.op = "deleteBook"

\* C10 as stated: whatever a service operation rejects with is an ApiError
\* that carries a status code.
C10_AlwaysApiError ==
    (call.op \in ServiceOps /\ call.result.k = "error") =>
       /\ call.result.name = "ApiError"
       /\ IsNum(call.result.statusCode)


\* the service operations that hand their response to handleApiResponse
Normalised == {"fetchBooks", "fetchBookById", "createBook", "updateBook"}

\* the call made is one of ops and a response with a failing status came
Failing(ops) ==
    /\ call.op \in ops
    /\ call.outcome.k = "resp"
    /\ ~Ok(call.outcome)

\* the members of the JSON object the response of the call carries
CallMembers ==
    IF call.outcome.body.k = "json" /\ call.outcome.body.v.k = "obj"
    THEN call.outcome.body.v.o ELSE EmptyObject

\* the call rejected with an ApiError of the status of its response
RejectedWithStatus ==
    /\ call.result.k = "error"
    /\ call.result.name = "ApiError"
    /\ call.result.statusCode = Num(call.outcome.status)

\* C11 as stated: each of the five operations, deleteBook included, turns a
\* failing response into an ApiError whose message is the Message, the
\* title or the detail of its JSON body, and for a body of text that is no
\* JSON into a message that holds the excerpt of the text.
C11_SameNormalization ==
    Failing(ServiceOps) =>
       LET o == CallMembers
           b == call.outcome.body
       IN  /\ Truthy(Get(o, "Message")) =>
                 RejectedWithStatus /\ call.result.message = o["Message"].s
           /\ ({"title", "errors"} \subseteq DOMAIN o /\ Truthy(o["title"])) =>
                 RejectedWithStatus /\ call.result.message = o["title"].s
           /\ (DOMAIN o = {"detail"}) =>
                 RejectedWithStatus /\ call.result.message = o["detail"].s
           /\ b.k = "text" =>
                 /\ RejectedWithStatus
                 /\ Len(call.result.message) > Min(Len(b.t), ExcerptLen)
                 /\ \E i \in 1..Len(call.result.message) :
                       SubSeq(call.result.message, i, i + Min(Len(b.t), ExcerptLen) - 1)
                          = SubSeq(b.t, 1, Min(Len(b.t), ExcerptLen))

\* C12 as stated: fetchBooks, fetchBookById, createBook and updateBook turn
\* a failing response whose JSON body has a title and an errors mapping,
\* and neither message nor Message, into an ApiError with the status, the
\* title as its message and the mapping as its errors.
C12_TitleAndErrors ==
    LET o == CallMembers IN
    (Failing(Normalised) /\ {"title", "errors"} \subseteq DOMAIN o
        /\ DOMAIN o \cap {"message", "Message"} = {}) =>
       /\ RejectedWithStatus
       /\ call.result.message = o["title"].s
       /\ call.result.errors = o["errors"]

\* C12 amended: the same for a title that is not the empty string; an
\* empty title is passed over and the message is the generic one.
C12_NonEmptyTitleAndErrors ==
    LET o == CallMembers IN
    (Failing(Normalised) /\ {"title", "errors"} \subseteq DOMAIN o
        /\ DOMAIN o \cap {"message", "Message"} = {}) =>
       /\ RejectedWithStatus
       /\ call.result.errors = o["errors"]
       /\ call.result.message =
             (IF o["title"].s # <<>> THEN o["title"].s
              ELSE StatusMessage(call.outcome.status))

\* C12 at work: fetchBookById on a 404 that says Not Found
C12_Witness ==
    /\ call.op = "fetchBookById"
    /\ call.outcome = NotFound
    /\ call.result.statusCode = Num(404)
    /\ call.result.message = <<"Not Found">>
    /\ call.result.errors = ErrMap({})

\* the message is "HTTP error S: " followed by the first 200 characters of
\* the text t, and by an ellipsis exactly when t is longer
HoldsExcerpt(message, t) ==
    LET n == Min(Len(t), ExcerptLen)
        cut == IF Len(t) > ExcerptLen THEN 1 ELSE 0
    IN  /\ Len(message) = 3 + n + cut
        /\ message[1] = "HTTP error "
        /\ message[2] = ToString(call.outcome.status)
        /\ \A i \in 1..n : message[3 + i] = t[i]
        /\ cut = 1 => message[Len(message)] = "..."

\* the text of the body of the call, when json() rejects on it
CallText ==
    IF call.outcome.body.k = "text" THEN call.outcome.body.t ELSE <<>>

\* C13 as stated: whenever json() rejects on the body of a failing
\* response, the operation rejects with an ApiError of the status whose
\* message holds the excerpt of the body text.
C13_ExcerptAlways ==
    (Failing(Normalised) /\ call.outcome.body.k \in {"text", "empty", "unreadable"}) =>
       /\ RejectedWithStatus
       /\ HoldsExcerpt(call.result.message, CallText)

\* C13 amended: the excerpt is there when the text of the body can be
\* read; when reading the text fails as well, the message stays the
\* generic one that names the status.
C13_ExcerptOfReadableText ==
    /\ (Failing(Normalised) /\ call.outcome.body.k \in {"text", "empty"}) =>
          /\ RejectedWithStatus
          /\ HoldsExcerpt(call.result.message, CallText)
    /\ (Failing(Normalised) /\ call.outcome.body.k = "unreadable") =>
          /\ RejectedWithStatus
          /\ call.result.message = StatusMessage(call.outcome.status)

\* C13 at work: a 500 whose text is longer than the excerpt, cut and
\* marked with the ellipsis
C13_Witness ==
    /\ call.op = "createBook"
    /\ call.outcome = Resp(500, TextBody(LongText))
    /\ Len(call.result.message) = ExcerptLen + 4
    /\ call.result.message[Len(call.result.message)] = "..."

\* a response with a 2xx status came to one of the four operations
Succeeded ==
    /\ call.op \in Normalised
    /\ call.outcome.k = "resp"
    /\ Ok(call.outcome)

C15_DeleteResult ==
    (call.op = "deleteBook" /\ call.outcome.k = "resp") =>
       /\ call.outcome.status = 204 =>
             call.result = Resolved(Obj([id |-> Str(ToString(call.id))]))
       /\ ~Ok(call.outcome) => RejectedWithStatus

\* C16 as stated: fetchBookById on an absent id rejects with "Book ID is
\* missing" and makes no network call.
C16_ServiceGuard ==
    (call.op = "fetchBookById" /\ call.id = NoId) =>
       /\ ~call.sent
       /\ call.result.k = "error"
       /\ call.result.message = <<"Book ID is missing">>

\* C16 amended: the guard is in the query function of the detail page,
\* which rejects with an Error "Book ID is missing" and calls nothing when
\* the route has no id, and otherwise hands on what fetchBookById gives;
\* fetchBookById itself makes its network call whatever the id.
C16_QueryFnGuard ==
    /\ (call.op = "queryFn" /\ call.id = NoId) =>
          /\ ~call.sent
          /\ call.result = Rejected("Error", <<"Book ID is missing">>, Undef, Undef)
    /\ (call.op = "queryFn" /\ call.id # NoId) =>
          /\ call.sent
          /\ call.result = fetchBookById(ToString(call.id), call.outcome)
    /\ call.op = "fetchBookById" => call.sent

\* C16 at work: the query function ran without an id
C16_Witness ==
    /\ call.op = "queryFn"
    /\ call.id = NoId
    /\ ~call.sent


\* the PUT calls the edit handler would start now on the form values v
PutsOf(v) ==
    {r \in EditHandleFormSubmit(Cur, bookFormSchema(v, FreshUuid, YearAtLoad).value).requests :
        r \notin requests}

\* C17: on the edit form, whatever values are submitted (the id and guid
\* of another book among them), the PUT goes to the id of the loaded book,
\* its body carries the guid of the loaded book, and every other field of
\* the body is the submitted value of that field; a PUT in flight carries
\* the guid that belongs to the id it goes to.
C17_IdentityKept ==
    /\ (route.page = "edit" /\ EditView(editPage) = "form") =>
          \A v \in EditSamples :
             validateBookForm(v, FreshUuid, YearAtLoad) =>
                /\ PutsOf(v) # {}
                /\ \A r \in PutsOf(v) :
                      /\ r.op = "updateBook"
                      /\ Num(r.id) = editPage.book.o["id"]
                      /\ r.body["guid"] = editPage.book.o["guid"]
                      /\ DOMAIN r.body \ {"guid"} = (DOMAIN v \cap DtoKeys) \ {"guid"}
                      /\ \A key \in DOMAIN r.body \ {"guid"} : r.body[key] = v[key]
    /\ \A r \in requests :
          r.op = "updateBook" => r.body["guid"] = ServerBook(r.id)["guid"]

\* C17 at work: the edit page awaits a PUT that goes to the id of the book
\* it loaded and carries its guid
C17_Witness ==
    /\ route.page = "edit"
    /\ EditView(editPage) = "form"
    /\ \E r \in Observed("updateBook") :
          /\ Num(r.id) = editPage.book.o["id"]
          /\ r.body["guid"] = editPage.book.o["guid"]
          /\ r.body["title"] = ForeignForm["title"]


\* the fields of the input of the call that hold a value the rules refuse
Offending == {key \in BookKeys : Pick(call.input, key) \in BadOf(key)}

\* C18: Book() on an input whose every field meets its rule returns a
\* book (it does not throw) in which every field of the input has the
\* value of the input, and id, isActive and guid, where the input has
\* none, are 0, true and the uuid newly generated.
C18_ValidBookBuilt ==
    (call.op = "Book" /\ call.input \in GoodInputs) =>
       /\ ~call.result.threw
       /\ \A key \in DOMAIN call.input : call.result.value[key] = call.input[key]
       /\ {"id", "isActive", "guid"} \subseteq DOMAIN call.result.value
       /\ "id" \notin DOMAIN call.input => call.result.value["id"] = Num(0)
       /\ "isActive" \notin DOMAIN call.input => call.result.value["isActive"] = Bool(TRUE)
       /\ "guid" \notin DOMAIN call.input =>
             /\ call.result.value["guid"] = Str(FreshUuid)
             /\ IsUuid(call.result.value["guid"].s)

\* C18 at work: a book built from the three required fields alone
C18_Witness ==
    /\ call.op = "Book"
    /\ DOMAIN call.input = {"title", "author", "isbn"}
    /\ ~call.result.threw
    /\ call.result.value["id"] = Num(0)
    /\ call.result.value["guid"] = Str(FreshUuid)

\* C19 as stated: Book() on an input that breaks a rule returns no book
\* and throws a ValidationError that holds a mapping from each offending
\* field to its messages.
C19_ValidationError ==
    (call.op = "Book" /\ call.input \in BadInputs) =>
       /\ call.result.threw
       /\ call.result.error.name = "ValidationError"
       /\ call.result.error.errors.k = "map"
       /\ {e[1] : e \in call.result.error.errors.m} = Offending

\* C19 amended: Book() on an input that breaks a rule returns no book and
\* throws a plain Error without any errors member; its message is "Book
\* validation failed: " followed by the JSON text of the issues, which
\* name every offending field and no other, each with a message.
C19_ErrorWithIssuesInMessage ==
    (call.op = "Book" /\ call.input \in BadInputs) =>
       /\ call.result.threw
       /\ call.result.value = EmptyObject
       /\ call.result.error.name = "Error"
       /\ call.result.error.errors = Undef
       /\ call.result.error.message.prefix = "Book validation failed: "
       /\ {e[1] : e \in call.result.error.message.json} = Offending
       /\ Offending # {}

\* C19 at work: an ISBN of nine digits and a year before 1000, both named
\* in the message of the Error thrown
C19_Witness ==
    /\ call.op = "Book"
    /\ call.result.threw
    /\ Offending = {"isbn", "publicationYear"}
    /\ <<"isbn", "ISBN must be between 10 and 13 characters.">>
          \in call.result.error.message.json
    /\ <<"publicationYear", "Please enter a valid publication year.">>
          \in call.result.error.message.json

\* C20: for an input x whose every field meets its rule, Book(x) returns a
\* book and BookFormValues of that book has, for every field of x, the
\* value x has.
C20_RoundTrip ==
    (call.op = "Book" /\ call.input \in GoodInputs) =>
       /\ ~call.result.threw
       /\ DOMAIN call.input \subseteq DOMAIN call.back
       /\ \A key \in DOMAIN call.input : call.back[key] = call.input[key]

\* C20 at work: an input with an id, a guid and isActive false came back
\* as it was
C20_Witness ==
    /\ call.op = "Book"
    /\ call.input \in GoodInputs
    /\ {"id", "guid", "isActive", "publicationYear"} \subseteq DOMAIN call.input
    /\ call.input["publicationYear"] = Null
    /\ call.back["id"] = Num(MaxBooks)
    /\ call.back["guid"] = Str(Uuid("e"))
    /\ call.back["isActive"] = Bool(FALSE)
    /\ call.back["publicationYear"] = Null


\* the keys the server owns
ServerOwned == {"id", "createdOn", "updatedOn", "isActive"}

\* the object a projection was called on: the empty seed for no argument
Seed == IF call.input.k = "undef" THEN EmptyObject ELSE call.input.o

\* the fields of the object x that hold a value the rules refuse
OffendingIn(x) == {key \in BookKeys : Pick(x, key) \in BadOf(key)}

\* C21: whatever BookDto is called on (a valid book, an invalid one, one
\* with a key no schema knows, nothing), the object it returns, and the
\* request body written from it, has none of the keys id, createdOn,
\* updatedOn and isActive.
C21_NoServerOwnedKeys ==
    call.op = "project" =>
       /\ DOMAIN call.dto \cap ServerOwned = {}
       /\ DOMAIN call.body \cap ServerOwned = {}
       /\ DOMAIN call.dto \subseteq BookKeys

\* C21 at work: a book with an id and the active flag, sent without them
C21_Witness ==
    /\ call.op = "project"
    /\ call.input.k = "obj"
    /\ {"id", "isActive", "guid"} \subseteq DOMAIN call.input.o
    /\ "shelf" \notin DOMAIN call.input.o
    /\ {"title", "guid"} \subseteq DOMAIN call.body

\* C22: BookFormValues and BookDto throw on no input.  On an input their
\* schema refuses each returns the object without keys; on an input their
\* schema accepts each returns the fields of the input that the schema
\* knows, with the value the input has, and the defaults.
C22_SilentFailure ==
    call.op = "project" =>
       /\ IF OffendingIn(Seed) # {}
          THEN call.form = EmptyObject
          ELSE /\ DOMAIN call.form = (DOMAIN Seed \cap BookKeys) \cup DefaultedKeys
               /\ \A key \in DOMAIN Seed \cap BookKeys : call.form[key] = Seed[key]
       /\ IF OffendingIn(Seed) \ ServerOwned # {}
          THEN call.dto = EmptyObject
          ELSE /\ DOMAIN call.dto = ((DOMAIN Seed \cap BookKeys) \ ServerOwned) \cup {"guid"}
               /\ \A key \in (DOMAIN Seed \cap BookKeys) \ ServerOwned :
                     call.dto[key] = Seed[key]

\* C22 at work: a book whose title is too long, projected to objects
\* without keys
C22_Witness ==
    /\ call.op = "project"
    /\ call.input.k = "obj"
    /\ OffendingIn(call.input.o) = {"title"}
    /\ "title" \in DOMAIN call.input.o
    /\ call.form = EmptyObject
    /\ call.dto = EmptyObject

\* the messages the rules of the ISBN give
IsbnMessages ==
    {"ISBN is required.", "ISBN must be between 10 and 13 characters.",
     "Invalid ISBN format."}

\* the ISBN of the input of the call is a string
HasIsbn ==
    /\ call.op = "Book"
    /\ "isbn" \in DOMAIN call.input
    /\ call.input["isbn"].k = "str"

\* C23: an ISBN whose number of digits is neither 10 nor 13 is refused with
\* a message of the ISBN rules; an ISBN that is accepted holds digits and
\* hyphens only and is 10 to 13 characters long.
C23_IsbnDigits ==
    HasIsbn =>
       LET isbn == call.input["isbn"].s
           digits == Cardinality({i \in 1..Len(isbn) : isbn[i] \in Digits})
       IN  /\ digits \notin {10, 13} =>
                 /\ call.result.threw
                 /\ \E e \in call.result.issues : e[1] = "isbn" /\ e[2] \in IsbnMessages
           /\ ~call.result.threw =>
                 /\ \A i \in 1..Len(isbn) : isbn[i] \in Digits \cup {"-"}
                 /\ Len(isbn) \in 10..13
                 /\ digits \in {10, 13}

\* C23 at work: twelve digits, inside the length bounds, refused for
\* their format
C23_Witness ==
    /\ HasIsbn
    /\ call.input["isbn"] = Str(Rep("1", 12))
    /\ call.result.threw
    /\ call.result.issues = {<<"isbn", "Invalid ISBN format.">>}

\* the publication year of the input of the call is a number
HasYear ==
    /\ call.op = "Book"
    /\ "publicationYear" \in DOMAIN call.input
    /\ call.input["publicationYear"].k = "num"

\* C24: a publication year after the current year plus 6, or before 1000,
\* makes Book() fail, in the year of the load and in the year after; an
\* input without a publication year raises no issue on that field.
C24_YearOutOfRange ==
    /\ HasYear =>
          LET p == call.input["publicationYear"].n IN
          (p > call.now + YearSlack \/ p < MinYear) =>
             /\ call.result.threw
             /\ \E e \in call.result.issues : e[1] = "publicationYear"
    /\ (call.op = "Book" /\ "publicationYear" \notin DOMAIN call.input) =>
          \A e \in call.result.issues : e[1] # "publicationYear"

\* C24 at work: validated in the year after the load, a year more than 6
\* ahead is refused
C24_Witness ==
    /\ HasYear
    /\ call.now = YearAtLoad + 1
    /\ call.input["publicationYear"].n > call.now + YearSlack
    /\ call.result.threw

\* C25 as stated: validated in the calendar year Y, whenever the module
\* was loaded, a publication year p, in an input whose other fields are
\* fine, is accepted exactly when 1000 <= p <= Y + 6.
C25_BoundOfTheYearNow ==
    (HasYear /\ OffendingIn(call.input) \subseteq {"publicationYear"}) =>
       LET p == call.input["publicationYear"].n IN
       ~call.result.threw <=> (MinYear <= p /\ p <= call.now + YearSlack)

\* C30: BookFormValues() without a book returns the object without keys,
\* so none of id, guid and isActive: the empty seed breaks the rules of
\* title, author and ISBN and of no other field.
C30_EmptySeed ==
    (call.op = "project" /\ call.input.k = "undef") =>
       /\ call.form = EmptyObject
       /\ DOMAIN call.form \cap DefaultedKeys = {}
       /\ LET r == bookFormSchema(EmptyObject, FreshUuid, YearAtLoad) IN
          /\ ~r.ok
          /\ {e[1] : e \in r.issues} = {"title", "author", "isbn"}

\* C30 at work: the form values of a new book
C30_Witness ==
    /\ call.op = "project"
    /\ call.input = Undef
    /\ call.form = EmptyObject


\* the DELETE calls in flight
Deletes == {r \in requests : r.op = "deleteBook"}

\* C26 as stated: while a DELETE of a book is in flight, the delete
\* control of that book in the list is disabled, and no two DELETE calls
\* of one book are in flight together.
C26_OneDeletePerBook ==
    /\ \A r \in Deletes :
          (route.page = "list" /\ ListView(books, listPage.viewMode) \in {"table", "card"}
              /\ r.id \in ShownBooks(books))
             => DeleteDisabled(requests, r.id)
    /\ \A r \in Deletes, x \in Deletes : r.id = x.id => r.seq = x.seq

\* C27 as stated: on the edit page, when no load is in flight any more,
\* the book the page holds is the book of the id of the route.
C27_BookOfRoute ==
    (route.page = "edit" /\ ~\E r \in requests : r.op = "loadBook") =>
       (Truthy(editPage.book) => editPage.book.o["id"] = Num(route.id))

\* C28 as stated: deleteBook resolves on the status 204 and on no other;
\* on any other status it rejects with an ApiError of that status, whose
\* message on a 2xx is "Book could not be deleted".
C28_OnlyNoContentResolves ==
    (call.op = "deleteBook" /\ call.outcome.k = "resp") =>
       /\ call.result.k = "value" <=> call.outcome.status = 204
       /\ call.outcome.status # 204 =>
             /\ RejectedWithStatus
             /\ Ok(call.outcome) => call.result.message = <<"Book could not be deleted">>

\* C29 as stated: on a network that answers every load, the edit page
\* whose loads have all ended does not stay on "Loading..." for ever: it
\* comes to show the form, or the route leaves the edit page.
C29_LeavesLoading ==
    (route.page = "edit" /\ ~\E r \in requests : r.op = "loadBook")
       ~> (route.page # "edit" \/ EditView(editPage) = "form")

=============================================================================
